---- MODULE Spec2Model ----
(***************************************************************************)
(* Model of the pyLox lexical scanner (src/src/scan.py, src/src/loxerr.py). *)
(*                                                                         *)
(* A source text is a sequence of one-character strings; Python offset k   *)
(* is element k+1 of the sequence.  The free functions match_* are         *)
(* operators computed the way the code computes them; the driver           *)
(* LoxScanner.nexttok / scan is a state machine whose steps are one        *)
(* iteration of the generator's loop (up to its yield) and the append of   *)
(* the yielded token; the other public methods of LoxScanner are actions   *)
(* of their own.  A Python exception leaving a function is the field       *)
(* "raised" of its result.                                                 *)
(***************************************************************************)
EXTENDS Integers, Sequences, FiniteSets, TLC

\* ------------------------------------------------------------------ bounds
\* Longest source text that is scanned.
MaxLen == 5

\* Longest source text of a scanner driven method by method.
MethodMaxLen == 3

\* Most errors recorded by a scanner driven method by method.
MaxErrors == 1

\* ------------------------------------------------------------ python basics
Min(a, b) == IF a < b THEN a ELSE b

\* content[k] for 0 <= k < len(content)
At(content, k) == content[k + 1]

\* content[a:b]  (Python slicing clamps at the end of the text)
Slice(content, a, b) ==
    IF a >= Min(b, Len(content)) THEN << >>
    ELSE SubSeq(content, a + 1, Min(b, Len(content)))

\* The characters of the model are those of Latin-1 (U+0000..U+00FF); the
\* classes below are Python's on that range.

\* The characters that int() and float() accept as digits
Digits == {"0", "1", "2", "3", "4", "5", "6", "7", "8", "9"}

\* The characters on which str.isnumeric is true
Numerics == Digits \cup {"²", "³", "¹", "¼", "½", "¾"}

\* The characters on which str.isalpha is true
Letters ==
    {"a", "b", "c", "d", "e", "f", "g", "h", "i", "j", "k", "l", "m",
     "n", "o", "p", "q", "r", "s", "t", "u", "v", "w", "x", "y", "z",
     "A", "B", "C", "D", "E", "F", "G", "H", "I", "J", "K", "L", "M",
     "N", "O", "P", "Q", "R", "S", "T", "U", "V", "W", "X", "Y", "Z",
     "ª", "µ", "º",
     "À", "Á", "Â", "Ã", "Ä", "Å", "Æ", "Ç", "È", "É", "Ê", "Ë", "Ì",
     "Í", "Î", "Ï", "Ð", "Ñ", "Ò", "Ó", "Ô", "Õ", "Ö", "Ø", "Ù", "Ú",
     "Û", "Ü", "Ý", "Þ", "ß", "à", "á", "â", "ã", "ä", "å", "æ", "ç",
     "è", "é", "ê", "ë", "ì", "í", "î", "ï", "ð", "ñ", "ò", "ó", "ô",
     "õ", "ö", "ø", "ù", "ú", "û", "ü", "ý", "þ", "ÿ"}

\* The characters on which str.isspace is true: tab, newline, vertical
\* tab, form feed, carriage return, U+001C..U+001F, space, U+0085, U+00A0
Spaces ==
    {"\t", "\n", "", "\f", "\r", "", "", "", "", " ",
     "", " "}

\* str.isspace, str.isalpha, str.isnumeric, str.isalnum on one character
isspace(c) == c \in Spaces
isalpha(c) == c \in Letters
isnumeric(c) == c \in Numerics
isalnum(c) == isalpha(c) \/ isnumeric(c)

\* c.lower()
lower(c) == IF c = "E" THEN "e" ELSE c

\* ------------------------------------------------------------------ tables
SYMBOLS ==
    (<<"(">> :> "LPAREN") @@ (<<")">> :> "RPAREN") @@
    (<<"{">> :> "LCURLY") @@ (<<"}">> :> "RCURLY") @@
    (<<"[">> :> "LANGLE") @@ (<<"]">> :> "RANGLE") @@
    (<<":">> :> "DOTS") @@ (<<".">> :> "DOT") @@
    (<<",">> :> "COMMA") @@ (<<";">> :> "COLON") @@
    (<<"+">> :> "PLUS") @@ (<<"+", "+">> :> "INC") @@
    (<<"+", "=">> :> "PLUSEQ") @@
    (<<"-">> :> "MINUS") @@ (<<"-", "-">> :> "DEC") @@
    (<<"-", "=">> :> "MINEQ") @@
    (<<"*">> :> "MUL") @@ (<<"/">> :> "DIV") @@
    (<<"/", "/">> :> "COMMENT") @@
    (<<"=">> :> "EQ") @@ (<<"=", "=">> :> "DEQ") @@
    (<<"<">> :> "LT") @@ (<<"<", "=">> :> "LTEQ") @@
    (<<">">> :> "GT") @@ (<<">", "=">> :> "GTEQ") @@
    (<<"!", "=">> :> "NEQ") @@ (<<"!">> :> "BANG")

KEYWORDS ==
    (<<"a", "n", "d">> :> "AND") @@ (<<"o", "r">> :> "OR") @@
    (<<"n", "o", "t">> :> "NOT") @@ (<<"x", "o", "r">> :> "XOR") @@
    (<<"i", "f">> :> "IF") @@ (<<"e", "l", "s", "e">> :> "ELSE") @@
    (<<"w", "h", "i", "l", "e">> :> "WHILE") @@
    (<<"f", "o", "r">> :> "FOR") @@ (<<"d", "e", "f">> :> "DEF") @@
    (<<"v", "a", "r">> :> "VAR") @@ (<<"n", "i", "l">> :> "NIL") @@
    (<<"t", "r", "u", "e">> :> "TRUE") @@
    (<<"f", "a", "l", "s", "e">> :> "FALSE")

\* PREFIXES without "=": the prefix of "==" was forgotten.
PREFIXES_no_eq == {"+", "-", "<", ">", "!", "n", "/", "f"}

PREFIXES == {"+", "-", "=", "<", ">", "!", "n", "/", "f"}

\* The decoded characters \a, \b and \v are U+0007, U+0008 and U+000B.
ESCAPE_SEQUENCES ==
    ("a" :> "") @@ ("b" :> "") @@ ("f" :> "\f") @@
    ("n" :> "\n") @@ ("r" :> "\r") @@ ("t" :> "\t") @@
    ("v" :> "") @@ ("\\" :> "\\") @@ ("'" :> "'") @@ ("\"" :> "\"")

\* The members of the enumeration TokenKind.
TokenKind ==
    {SYMBOLS[s] : s \in DOMAIN SYMBOLS} \cup
    {KEYWORDS[k] : k \in DOMAIN KEYWORDS} \cup
    {"NUMBER", "STRING", "IDENTIFIER", "EXPONENT"}

ScanErrorMessages ==
    (10 :> "Unknown symbol.") @@
    (11 :> "Error parsing string: Opening quote missing.") @@
    (12 :> "Error parsing string: EOF reached while parsing escape sequence.") @@
    (13 :> "Error parsing string: Unknown escape sequence.") @@
    (14 :> "Error parsing string: Missing closing quote.") @@
    (15 :> "Invalid start character for identifier.") @@
    (16 :> "Error in parsing number: Expected digit or '.'.") @@
    (17 :> "Error in parsing number: No digit.") @@
    (30 :> "Error in parsing exponent: Invalid start character.") @@
    (31 :> "Error in parsing exponent: No value.") @@
    (40 :> "Error: EOF reached.")

\* dict.get(key, default)
DictGet(d, key, default) == IF key \in DOMAIN d THEN d[key] ELSE default

\* getattr(TokenKind, name, default); the kind None is the empty name ""
GetKind(name, default) == IF name \in TokenKind THEN name ELSE default

\* ------------------------------------------------------------- value types
\* Token.literal: None, an int, a float or a str.  A finite float is
\* named by the decimal num * 10^exp that it is the nearest double to (num
\* not divisible by 10); the float inf is Infinity.
NoLiteral == [tag |-> "None", num |-> 0, exp |-> 0, str |-> << >>]
IntLiteral(n) == [tag |-> "int", num |-> n, exp |-> 0, str |-> << >>]
FloatLiteral(m, x) == [tag |-> "float", num |-> m, exp |-> x, str |-> << >>]
Infinity == [tag |-> "float", num |-> 0, exp |-> 0, str |-> <<"i", "n", "f">>]
StrLiteral(s) == [tag |-> "str", num |-> 0, exp |-> 0, str |-> s]

Token(kind, lexeme, start, end, literal) ==
    [kind |-> kind, lexeme |-> lexeme, start |-> start, end |-> end,
     literal |-> literal]

\* A value stored as an error: a ScanError tuple, or a bare message of the
\* catalog (type "str", which has no position).
ScanError(content, pos, msg) ==
    [type |-> "ScanError", filename |-> "None", content |-> content,
     pos |-> pos, msg |-> msg]
BareMessage(msg) ==
    [type |-> "str", filename |-> "None", content |-> << >>,
     pos |-> -1, msg |-> msg]

\* MatchResult.error: None, one value, or a list of values.
NoError == [form |-> "None", items |-> << >>]
OneError(e) == [form |-> "one", items |-> <<e>>]
ErrorList(es) == [form |-> "list", items |-> es]

\* MatchResult(success, token, span, error); token is << >> for None and
\* <<t>> for the token t.
MatchResult(success, token, span, error) ==
    [success |-> success, token |-> token, span |-> span, error |-> error,
     raised |-> ""]

\* The call did not return: it raised the exception exc.
Raised(exc) ==
    [success |-> FALSE, token |-> << >>, span |-> 0, error |-> NoError,
     raised |-> exc]

\* ---------------------------------------------------------------- matchers
\* match_symbol reporting span 1 for a two-character symbol.
match_symbol_span1(content, start) ==
    LET lex01 == Slice(content, start, start + 2)
        kind01 == GetKind(DictGet(SYMBOLS, lex01, ""), "")
        lex0 == Slice(content, start, start + 1)
        kind0 == GetKind(DictGet(SYMBOLS, lex0, ""), "")
    IN  IF Len(content) - start > 1 /\ At(content, start) \in PREFIXES
           /\ kind01 # ""
        THEN MatchResult(TRUE,
                 <<Token(kind01, lex01, start, start + 2, NoLiteral)>>,
                 1, NoError)
        ELSE IF kind0 # ""
        THEN MatchResult(TRUE,
                 <<Token(kind0, lex0, start, start + 1, NoLiteral)>>,
                 1, NoError)
        ELSE MatchResult(FALSE, << >>, 0,
                 OneError(BareMessage(ScanErrorMessages[10])))

match_symbol(content, start) ==
    LET lex01 == Slice(content, start, start + 2)
        kind01 == GetKind(DictGet(SYMBOLS, lex01, ""), "")
        lex0 == Slice(content, start, start + 1)
        kind0 == GetKind(DictGet(SYMBOLS, lex0, ""), "")
    IN  IF Len(content) - start > 1 /\ At(content, start) \in PREFIXES
           /\ kind01 # ""
        THEN MatchResult(TRUE,
                 <<Token(kind01, lex01, start, start + 2, NoLiteral)>>,
                 2, NoError)
        ELSE IF kind0 # ""
        THEN MatchResult(TRUE,
                 <<Token(kind0, lex0, start, start + 1, NoLiteral)>>,
                 1, NoError)
        ELSE MatchResult(FALSE, << >>, 0,
                 OneError(BareMessage(ScanErrorMessages[10])))

\* The loop of match_comment: the offset of the first newline at or after
\* i, or len(content).
RECURSIVE comment_loop(_, _)
comment_loop(content, i) ==
    IF i < Len(content) /\ At(content, i) # "\n"
    THEN comment_loop(content, i + 1)
    ELSE i

\* match_comment returning a COMMENT token for the comment it matched.
match_comment_token(content, start) ==
    IF Len(content) - start > 2 /\ Slice(content, start, start + 2) = <<"/", "/">>
    THEN LET j == comment_loop(content, start + 2)
             i == IF j < Len(content) /\ At(content, j) = "\n" THEN j + 1 ELSE j
         IN  MatchResult(TRUE,
                 <<Token("COMMENT", Slice(content, start, i), start, i,
                         NoLiteral)>>,
                 i - start, NoError)
    ELSE MatchResult(FALSE, << >>, 0, NoError)

match_comment(content, start) ==
    IF Len(content) - start > 2 /\ Slice(content, start, start + 2) = <<"/", "/">>
    THEN LET j == comment_loop(content, start + 2)
             i == IF j < Len(content) /\ At(content, j) = "\n" THEN j + 1 ELSE j
         IN  MatchResult(TRUE, << >>, i - start, NoError)
    ELSE MatchResult(FALSE, << >>, 0, NoError)

\* identifier_loop that stops at '_' (as LoxScanner.scan_identifier does).
RECURSIVE identifier_loop_alnum(_, _, _)
identifier_loop_alnum(content, i, chars) ==
    IF i < Len(content) /\ isalnum(At(content, i))
    THEN identifier_loop_alnum(content, i + 1, Append(chars, At(content, i)))
    ELSE [i |-> i, chars |-> chars]

\* The loop of match_identifier: the characters of the run of alphanumeric
\* characters and '_' that starts at i, appended to chars.
RECURSIVE identifier_loop(_, _, _)
identifier_loop(content, i, chars) ==
    IF i < Len(content) /\ (isalnum(At(content, i)) \/ At(content, i) = "_")
    THEN identifier_loop(content, i + 1, Append(chars, At(content, i)))
    ELSE [i |-> i, chars |-> chars]

match_identifier(content, start) ==
    LET run == identifier_loop(content, start, << >>)
        i == run.i
        lexeme == run.chars
        kind == GetKind(DictGet(KEYWORDS, lexeme, ""), "IDENTIFIER")
    IN  IF lexeme = << >>
        THEN MatchResult(FALSE, << >>, 0,
                 OneError(ScanError(content, start, ScanErrorMessages[15])))
        ELSE MatchResult(TRUE, <<Token(kind, lexeme, start, i, NoLiteral)>>,
                 i - start, NoError)

\* string_loop that stops at the first unknown escape sequence.
RECURSIVE string_loop_failfast(_, _, _, _)
string_loop_failfast(content, i, chars, errors) ==
    IF i >= Len(content)
    THEN [i |-> i, chars |-> chars, errors |-> errors, end |-> FALSE]
    ELSE LET c == At(content, i) IN
         IF c = "\\"
         THEN IF i + 1 >= Len(content)
              THEN [i |-> i, chars |-> chars,
                    errors |-> Append(errors,
                        ScanError(content, i, ScanErrorMessages[12])),
                    end |-> FALSE]
              ELSE LET c2 == At(content, i + 1) IN
                   IF c2 \in DOMAIN ESCAPE_SEQUENCES
                   THEN string_loop_failfast(content, i + 2,
                            Append(chars, ESCAPE_SEQUENCES[c2]), errors)
                   ELSE [i |-> i + 2, chars |-> chars,
                         errors |-> Append(errors,
                             ScanError(content, i, ScanErrorMessages[13])),
                         end |-> FALSE]
         ELSE IF c = "\""
         THEN [i |-> i + 1, chars |-> chars, errors |-> errors, end |-> TRUE]
         ELSE string_loop_failfast(content, i + 1, Append(chars, c), errors)

\* The loop of match_string from offset i: the offset reached, the decoded
\* characters, the errors and whether the closing quote was consumed.
RECURSIVE string_loop(_, _, _, _)
string_loop(content, i, chars, errors) ==
    IF i >= Len(content)
    THEN [i |-> i, chars |-> chars, errors |-> errors, end |-> FALSE]
    ELSE LET c == At(content, i) IN
         IF c = "\\"
         THEN IF i + 1 >= Len(content)
              THEN [i |-> i, chars |-> chars,
                    errors |-> Append(errors,
                        ScanError(content, i, ScanErrorMessages[12])),
                    end |-> FALSE]
              ELSE LET c2 == At(content, i + 1) IN
                   IF c2 \in DOMAIN ESCAPE_SEQUENCES
                   THEN string_loop(content, i + 2,
                            Append(chars, ESCAPE_SEQUENCES[c2]), errors)
                   ELSE string_loop(content, i + 2, chars,
                            Append(errors,
                                ScanError(content, i, ScanErrorMessages[13])))
         ELSE IF c = "\""
         THEN [i |-> i + 1, chars |-> chars, errors |-> errors, end |-> TRUE]
         ELSE string_loop(content, i + 1, Append(chars, c), errors)

match_string(content, start) ==
    IF start >= Len(content) THEN Raised("IndexError")
    ELSE IF At(content, start) # "\""
    THEN MatchResult(FALSE, << >>, 0,
             OneError(BareMessage(ScanErrorMessages[11])))
    ELSE LET r == string_loop(content, start + 1, << >>, << >>)
             errors == IF r.end THEN r.errors
                       ELSE Append(r.errors,
                                ScanError(content, r.i, ScanErrorMessages[14]))
             literal == IF errors = << >> THEN r.chars ELSE << >>
             lexeme == <<"\"">> \o r.chars \o (IF r.end THEN <<"\"">> ELSE << >>)
         IN  MatchResult(errors = << >>,
                 <<Token("STRING", lexeme, start, r.i, StrLiteral(literal))>>,
                 r.i - start,
                 IF Len(errors) # 0 THEN ErrorList(errors) ELSE NoError)

\* int() and float() reject a text that holds a numeric character which
\* is not a digit: they raise ValueError.
Unparsable(chars) == \E k \in 1..Len(chars) : chars[k] \in Numerics \ Digits

\* int(c) for one digit
DigitValue(c) ==
    CASE c = "0" -> 0 [] c = "1" -> 1 [] c = "2" -> 2 [] c = "3" -> 3
      [] c = "4" -> 4 [] c = "5" -> 5 [] c = "6" -> 6 [] c = "7" -> 7
      [] c = "8" -> 8 [] c = "9" -> 9

\* int(''.join(digits)); leading zeros have no effect
RECURSIVE ParseInt(_)
ParseInt(digits) ==
    IF digits = << >> THEN 0
    ELSE 10 * ParseInt(SubSeq(digits, 1, Len(digits) - 1))
         + DigitValue(digits[Len(digits)])

\* itertools.takewhile(isnumeric, islice(content, i, len(content)))
RECURSIVE takewhile_numeric(_, _)
takewhile_numeric(content, i) ==
    IF i < Len(content) /\ isnumeric(At(content, i))
    THEN <<At(content, i)>> \o takewhile_numeric(content, i + 1)
    ELSE << >>

match_exponent(content, start) ==
    IF start >= Len(content)
    THEN MatchResult(FALSE, << >>, 0,
             OneError(ScanError(content, start, ScanErrorMessages[40])))
    ELSE IF lower(At(content, start)) # "e"
    THEN MatchResult(FALSE, << >>, 0,
             OneError(ScanError(content, start, ScanErrorMessages[30])))
    ELSE IF start + 1 >= Len(content)
    THEN Raised("IndexError")
    ELSE LET i0 == start + 1
             sign == IF At(content, i0) = "-" THEN -1 ELSE 1
             i1 == IF At(content, i0) \in {"-", "+"} THEN i0 + 1 ELSE i0
             value == takewhile_numeric(content, i1)
             i == i1 + Len(value)
         IN  IF value = << >>
             THEN MatchResult(FALSE, << >>, 0,
                      OneError(ScanError(content, i, ScanErrorMessages[31])))
             ELSE IF Unparsable(value)
             THEN Raised("ValueError")
             ELSE MatchResult(TRUE,
                      <<Token("EXPONENT", Slice(content, start, i), start, i,
                              IntLiteral(sign * ParseInt(value)))>>,
                      i - start, NoError)

\* The decimal m * 10^x with trailing zeros of m moved into x.
RECURSIVE Normalize(_, _)
Normalize(m, x) ==
    IF m = 0 THEN FloatLiteral(0, 0)
    ELSE IF m % 10 = 0 THEN Normalize(m \div 10, x + 1)
    ELSE FloatLiteral(m, x)

RECURSIVE Pow10(_)
Pow10(n) == IF n <= 0 THEN 1 ELSE 10 * Pow10(n - 1)

\* The number of decimal digits of m > 0
RECURSIVE DigitCount(_)
DigitCount(m) == IF m < 10 THEN 1 ELSE 1 + DigitCount(m \div 10)

\* The double nearest to m * 10^x, for m of at most nine digits: inf from
\* 2^1024 - 2^970 = 1.797693134862315807...e308 upwards, 0.0 up to
\* 2^-1075 = 2.47032822920623272...e-324, and otherwise the double named
\* by the decimal.
RoundToDouble(m, x) ==
    LET f == Normalize(m, x)
        d == DigitCount(f.num)
        e10 == d - 1 + f.exp
        lead == f.num * Pow10(9 - d)
    IN  IF f.num = 0 THEN f
        ELSE IF e10 > 308 \/ (e10 = 308 /\ lead >= 179769314) THEN Infinity
        ELSE IF e10 < -324 \/ (e10 = -324 /\ lead <= 247032822)
        THEN FloatLiteral(0, 0)
        ELSE f

\* The offset of the first e/E of lexeme, or len(lexeme)
RECURSIVE FindE(_, _)
FindE(lexeme, k) ==
    IF k < Len(lexeme) /\ lower(At(lexeme, k)) # "e"
    THEN FindE(lexeme, k + 1)
    ELSE k

\* float(lexeme) for a lexeme digits [. digits] [e [+-] digits]
ParseFloat(lexeme) ==
    LET e == FindE(lexeme, 0)
        mant == Slice(lexeme, 0, e)
        dot == CHOOSE k \in 0..Len(mant) :
                   /\ k < Len(mant) => At(mant, k) = "."
                   /\ \A j \in 0..(k - 1) : At(mant, j) # "."
        fraclen == IF dot < Len(mant) THEN Len(mant) - dot - 1 ELSE 0
        digits == SelectSeq(mant, LAMBDA c : c # ".")
        etext == Slice(lexeme, e + 1, Len(lexeme))
        esign == IF etext # << >> /\ etext[1] = "-" THEN -1 ELSE 1
        edigits == SelectSeq(etext, LAMBDA c : c \notin {"+", "-"})
    IN  RoundToDouble(ParseInt(digits), esign * ParseInt(edigits) - fraclen)

\* The loop of match_number from offset i: digits and at most one '.'.
RECURSIVE number_loop(_, _, _, _, _)
number_loop(content, i, chars, has_dot, has_digit) ==
    IF i >= Len(content)
    THEN [i |-> i, chars |-> chars, has_dot |-> has_dot, has_digit |-> has_digit]
    ELSE LET c == At(content, i) IN
         IF isnumeric(c)
         THEN number_loop(content, i + 1, Append(chars, c), has_dot, TRUE)
         ELSE IF c = "." /\ ~has_dot
         THEN number_loop(content, i + 1, Append(chars, c), TRUE, has_digit)
         ELSE [i |-> i, chars |-> chars, has_dot |-> has_dot,
               has_digit |-> has_digit]

match_number(content, start) ==
    IF start >= Len(content) THEN Raised("IndexError")
    ELSE IF ~(isnumeric(At(content, start)) \/ At(content, start) = ".")
    THEN MatchResult(FALSE, << >>, 0,
             OneError(ScanError(content, start, ScanErrorMessages[16])))
    ELSE LET r == number_loop(content, start, << >>, FALSE, FALSE)
             exp == match_exponent(content, r.i)
             lexeme0 == r.chars
             literal0 == IF r.has_dot THEN ParseFloat(lexeme0)
                         ELSE IntLiteral(ParseInt(lexeme0))
         IN  IF ~r.has_digit
             THEN MatchResult(FALSE, << >>, 0,
                      OneError(ScanError(content, r.i, ScanErrorMessages[17])))
             ELSE IF Unparsable(lexeme0)
             THEN Raised("ValueError")
             ELSE IF r.i < Len(content) /\ exp.raised # ""
             THEN Raised(exp.raised)
             ELSE IF r.i < Len(content) /\ exp.success
             THEN LET lexeme == lexeme0 \o exp.token[1].lexeme
                      i == r.i + exp.span
                  IN  MatchResult(TRUE,
                          <<Token("NUMBER", lexeme, start, i, ParseFloat(lexeme))>>,
                          i - start, NoError)
             ELSE MatchResult(TRUE,
                      <<Token("NUMBER", lexeme0, start, r.i, literal0)>>,
                      r.i - start, NoError)

\* ------------------------------------------------------------------ driver
\* ------------------------------------------------- methods of LoxScanner
\* LoxScanner.makeerr: the error it appends, a ScanError with filename ''
makeerr(content, current, msg) ==
    [type |-> "ScanError", filename |-> "", content |-> content,
     pos |-> current, msg |-> msg]

\* LoxScanner.advance: the new cursor and the character returned ('' at
\* the end of the text)
advance(content, current) ==
    IF current < Len(content)
    THEN [current |-> current + 1, char |-> At(content, current)]
    ELSE [current |-> current, char |-> ""]

\* LoxScanner.peek for n >= 0
peek(content, current, n) ==
    IF current + n < Len(content) THEN At(content, current + n) ELSE ""

\* LoxScanner.consume: the new cursor
RECURSIVE consume(_, _)
consume(content, current) ==
    LET a == advance(content, current)
    IN  IF current < Len(content)
        THEN IF a.char \in {" ", "\t", "\n", "\r"}
             THEN a.current - 1
             ELSE consume(content, a.current)
        ELSE current

\* LoxScanner.scan_symbol: the new cursor and the exception raised.  The
\* call Token(kind, lexeme, None) lacks the argument `end`: TypeError.
scan_symbol(content, current, char0) ==
    LET a == advance(content, current)
        two == IF a.char = "" THEN <<char0>> ELSE <<char0, a.char>>
    IN  [current |-> a.current,
         errs |-> << >>,
         raised |-> IF two \in DOMAIN SYMBOLS \/ <<char0>> \in DOMAIN SYMBOLS
                    THEN "TypeError" ELSE ""]

\* The loop of LoxScanner.scan_identifier: the new cursor
RECURSIVE scan_identifier_loop(_, _)
scan_identifier_loop(content, current) ==
    LET a == advance(content, current)
    IN  IF current < Len(content)
        THEN IF isalnum(a.char)
             THEN scan_identifier_loop(content, a.current)
             ELSE a.current - 1
        ELSE current

\* LoxScanner.scan_identifier; its call of Token always raises TypeError.
scan_identifier(content, current, char0) ==
    [current |-> scan_identifier_loop(content, current),
     errs |-> << >>,
     raised |-> "TypeError"]

\* The text without one leading whitespace character and one sign: int()
\* and float() accept a sign and strip whitespace, which to them does not
\* include U+001C..U+001F.
StripSign(chars) ==
    LET stripped == Spaces \ {"", "", "", ""}
        s == IF chars # << >> /\ Head(chars) \in stripped THEN Tail(chars)
             ELSE chars
    IN  IF s # << >> /\ Head(s) \in {"+", "-"} THEN Tail(s) ELSE s

\* The index after the run of digits of s that starts at index i
RECURSIVE DigitsEnd(_, _)
DigitsEnd(s, i) ==
    IF i <= Len(s) /\ s[i] \in Digits THEN DigitsEnd(s, i + 1) ELSE i

\* int(chars) returns
ValidInt(chars) ==
    LET s == StripSign(chars)
    IN  s # << >> /\ DigitsEnd(s, 1) = Len(s) + 1

\* float(chars) returns
ValidFloat(chars) ==
    LET s == StripSign(chars)
        n == Len(s)
        a == DigitsEnd(s, 1)
        hasdot == a <= n /\ s[a] = "."
        b == IF hasdot THEN DigitsEnd(s, a + 1) ELSE a
        digits == (a - 1) + (IF hasdot THEN b - a - 1 ELSE 0)
        hasexp == b <= n /\ s[b] \in {"e", "E"}
        c == IF hasexp /\ b + 1 <= n /\ s[b + 1] \in {"+", "-"}
             THEN b + 2 ELSE b + 1
        d == IF hasexp THEN DigitsEnd(s, c) ELSE b
    IN  digits >= 1 /\ (hasexp => d > c) /\ d = n + 1

\* The loop of LoxScanner.scan_number: the locals and the cursor after it,
\* and the errors that makeerr appended
RECURSIVE scan_number_loop(_, _, _, _, _, _, _)
scan_number_loop(content, current, chars, has_dot, has_exp, error, errs) ==
    LET Exit(cur, ch, x, er, es) ==
            [current |-> cur, chars |-> ch, has_dot |-> has_dot,
             has_exp |-> x, error |-> er, errs |-> es]
        a == advance(content, current)
        c == a.char
        a2 == advance(content, a.current)
    IN  IF ~(current < Len(content))
        THEN Exit(current, chars, has_exp, error, errs)
        ELSE IF isnumeric(c)
        THEN scan_number_loop(content, a.current, Append(chars, c),
                              has_dot, has_exp, error, errs)
        ELSE IF c = "." /\ ~has_dot
        THEN scan_number_loop(content, a.current, Append(chars, c),
                              TRUE, has_exp, error, errs)
        ELSE IF c = "." /\ has_dot
        THEN Exit(consume(content, a.current), chars, has_exp, TRUE,
                  Append(errs, makeerr(content, a.current, "Expected digit")))
        ELSE IF c = "E" \/ (c = "e" /\ ~has_exp)
        THEN IF a2.char = "-" \/ a2.char = "+" \/ isnumeric(a2.char)
             THEN scan_number_loop(content, a2.current,
                                   chars \o <<c, a2.char>>,
                                   has_dot, TRUE, error, errs)
             ELSE Exit(consume(content, a2.current), Append(chars, c), TRUE,
                       TRUE,
                       Append(errs, makeerr(content, a2.current,
                                            "Expected proper exponent")))
        ELSE IF c = "E" \/ (c = "e" /\ has_exp)
        THEN scan_number_loop(content, consume(content, a.current), chars,
                              has_dot, has_exp, TRUE,
                              Append(errs, makeerr(content, a.current,
                                                   "Expected digit")))
        ELSE Exit(a.current - 1, chars, has_exp, error, errs)

\* LoxScanner.scan_number: None after an error; else float() or int() of
\* the text raises ValueError, or the call of Token raises TypeError.
scan_number(content, current, char0) ==
    LET r == scan_number_loop(content, current, <<char0>>, char0 = ".",
                              FALSE, FALSE, << >>)
    IN  [current |-> r.current,
         errs |-> r.errs,
         raised |-> IF r.error THEN ""
                    ELSE IF r.has_dot \/ r.has_exp
                    THEN IF ValidFloat(r.chars) THEN "TypeError"
                         ELSE "ValueError"
                    ELSE IF ValidInt(r.chars) THEN "TypeError"
                         ELSE "ValueError"]

\* The loop of LoxScanner.scan_string: the cursor after it and how it was
\* left: by the closing quote, by the end of the text, or by the NameError
\* of the undefined name Scanner at the first backslash
RECURSIVE scan_string_loop(_, _)
scan_string_loop(content, current) ==
    LET a == advance(content, current)
    IN  IF ~(current < Len(content))
        THEN [current |-> current, left |-> "eof"]
        ELSE IF a.char = "\\"
        THEN [current |-> advance(content, a.current).current,
              left |-> "NameError"]
        ELSE IF a.char = "\""
        THEN [current |-> a.current, left |-> "end"]
        ELSE scan_string_loop(content, a.current)

\* LoxScanner.scan_string
scan_string(content, current, char0) ==
    LET r == scan_string_loop(content, current)
    IN  IF char0 # "\""
        THEN [current |-> current, errs |-> << >>,
              raised |-> "AssertionError"]
        ELSE IF r.left = "NameError"
        THEN [current |-> r.current, errs |-> << >>, raised |-> "NameError"]
        ELSE IF r.left = "eof"
        THEN [current |-> r.current,
              errs |-> <<makeerr(content, r.current,
                                 "String not terminated.")>>,
              raised |-> ""]
        ELSE [current |-> r.current, errs |-> << >>, raised |-> "TypeError"]

\* The loop of LoxScanner.scan_comment: the new cursor
RECURSIVE scan_comment_loop(_, _, _)
scan_comment_loop(content, current, c) ==
    LET a == advance(content, current)
    IN  IF current < Len(content) /\ c # "\n"
        THEN scan_comment_loop(content, a.current, a.char)
        ELSE current

\* LoxScanner.scan_comment
scan_comment(content, current) ==
    IF current >= Len(content)
    THEN [current |-> current, errs |-> << >>, raised |-> "IndexError"]
    ELSE [current |-> scan_comment_loop(content, current,
                                        At(content, current)),
          errs |-> << >>, raised |-> ""]

\* One iteration of the loop of the generator LoxScanner.nexttok at cursor
\* current: the new cursor, whether the iteration ends at `yield tok`
\* (whitespace and comments `continue` instead), the token yielded (<< >>
\* for None), the values appended to self.errors, and the exception that
\* leaves the generator ("" when the iteration completes).
nexttok(content, current) ==
    LET char == peek(content, current, 0)
        Continue(cur) ==
            [current |-> cur, yields |-> FALSE, tok |-> << >>,
             errs |-> << >>, exc |-> ""]
        Yield(cur, tok, errs) ==
            [current |-> cur, yields |-> TRUE, tok |-> tok, errs |-> errs,
             exc |-> ""]
        Raise(exc) ==
            [current |-> current, yields |-> FALSE, tok |-> << >>,
             errs |-> << >>, exc |-> exc]
        mi == match_identifier(content, current)
        mn == match_number(content, current)
        ms == match_symbol(content, current)
        mc == match_comment(content, current)
        mstr == match_string(content, current)
    IN  IF isspace(char)
        THEN Continue(current + 1)
        ELSE IF isalpha(char) \/ char = "_"
        THEN IF mi.success
             THEN Yield(current + mi.span, mi.token, << >>)
             ELSE Raise("RuntimeError")
        ELSE IF isnumeric(char)
        THEN IF mn.raised # ""
             THEN Raise(mn.raised)
             ELSE IF mn.success
             THEN Yield(current + mn.span, mn.token, << >>)
             ELSE Raise("RuntimeError")
        ELSE IF char = "."
        THEN IF mn.raised # ""
             THEN Raise(mn.raised)
             ELSE IF mn.success
             THEN Yield(current + mn.span, mn.token, << >>)
             ELSE IF ms.success
             THEN Yield(current + ms.span, ms.token, << >>)
             ELSE Raise("RuntimeError")
        ELSE IF char = "/"
        THEN IF mc.success
             THEN Continue(current + mc.span)
             ELSE IF ms.success
             THEN Yield(current + ms.span, ms.token, << >>)
             ELSE Raise("RuntimeError")
        ELSE IF char = "\""
        THEN IF mstr.success
             THEN Yield(current + mstr.span, mstr.token, << >>)
             ELSE Yield(current + mstr.span, << >>, mstr.error.items)
        ELSE IF ms.success
             THEN Yield(current + ms.span, ms.token, << >>)
             ELSE Yield(current + 1, << >>, ms.error.items)

\* ------------------------------------------------------------------ inputs
GeneralChars == {"1", ".", "e", "+", "/", "\n", "\"", "\\"}
NumberChars == {"1", "2", ".", "E", "-"}
StringChars == {"\"", "\\", "n", "x", " "}
IdentifierChars == {"o", "r", "_", "1", " "}
CommentChars == {"/", "\n", "=", "+", "x"}
Latin1Chars == {"é", "²", "", "1", "e"}
MethodChars == {"1", ".", "e", "E", "+", "\"", "\\", " ", "\n", "="}

\* The texts of at most n characters of alphabet
Texts(alphabet, n) == UNION {[1..k -> alphabet] : k \in 0..n}

Inputs ==
    Texts(GeneralChars, MaxLen) \cup Texts(NumberChars, MaxLen) \cup
    Texts(StringChars, MaxLen) \cup Texts(IdentifierChars, MaxLen) \cup
    Texts(CommentChars, MaxLen) \cup Texts(Latin1Chars, MaxLen)

\* The texts of a scanner driven method by method
MethodInputs == Texts(MethodChars, MethodMaxLen)

\* The first characters that the client hands to the scan_ methods
FirstChars == {"1", ".", "+", "\"", "="}

\* The messages that the methods pass to makeerr
MethodMessages ==
    {"Expected digit", "Expected proper exponent",
     "Unknown escape character.", "String not terminated."}

\* ------------------------------------------------------------------- state
VARIABLES
    content,   \* LoxScanner.content, the text being scanned
    current,   \* LoxScanner.current, the cursor
    tokens,    \* LoxScanner.tokens
    errors,    \* LoxScanner.errors
    pc,        \* "scanning": in the loop of nexttok; "yielded": the
               \* generator is suspended at `yield tok`; "done": scan
               \* returned; "raised": an exception left scan
    yielded,   \* the value of tok at the yield: <<t>>, or << >> for None
    exc,       \* the exception that left scan, "" when none
    call,      \* the last direct call of a matcher and its result
    ret        \* the last direct call of a method of the scanner: the
               \* character it returned ("" for '' and for None) and the
               \* exception it raised ("" when it returned)

vars == <<content, current, tokens, errors, pc, yielded, exc, call, ret>>

NoCall == [fn |-> "none", start |-> 0, res |-> MatchResult(FALSE, << >>, 0, NoError)]

NoRet == [fn |-> "none", value |-> "", raised |-> ""]

\* LoxScanner(content), before scan()
Init ==
    /\ content \in Inputs
    /\ current = 0
    /\ tokens = << >>
    /\ errors = << >>
    /\ pc = "scanning"
    /\ yielded = << >>
    /\ exc = ""
    /\ call = NoCall
    /\ ret = NoRet

\* One iteration of the next-token loop of the generator: up to its
\* `continue`, its `yield tok` or the exception that leaves it.
NextTok ==
    /\ pc = "scanning"
    /\ current < Len(content)
    /\ LET r == nexttok(content, current) IN
       /\ current' = r.current
       /\ errors' = errors \o r.errs
       /\ yielded' = r.tok
       /\ exc' = r.exc
       /\ pc' = IF r.exc # "" THEN "raised"
                ELSE IF r.yields THEN "yielded" ELSE "scanning"
    /\ UNCHANGED <<content, tokens, call, ret>>

\* The loop of scan takes the yielded value: filter drops None, a token is
\* appended to self.tokens; the generator is resumed.
ScanAppend ==
    /\ pc = "yielded"
    /\ tokens' = tokens \o yielded
    /\ yielded' = << >>
    /\ pc' = "scanning"
    /\ UNCHANGED <<content, current, errors, exc, call, ret>>

\* The loop condition fails, the generator is exhausted and scan returns.
Return ==
    /\ pc = "scanning"
    /\ current >= Len(content)
    /\ pc' = "done"
    /\ UNCHANGED <<content, current, tokens, errors, yielded, exc, call, ret>>

Next == NextTok \/ ScanAppend \/ Return

Spec == Init /\ [][Next]_vars

\* The scan runs to its end: the interpreter keeps executing the loop.
FairSpec == Spec /\ WF_vars(Next)

\* ------------------------------------------- direct calls of the methods
\* A client constructs a LoxScanner and calls its methods one by one.
MethodInit ==
    /\ content \in MethodInputs
    /\ current = 0
    /\ tokens = << >>
    /\ errors = << >>
    /\ pc = "scanning"
    /\ yielded = << >>
    /\ exc = ""
    /\ call = NoCall
    /\ ret = NoRet

\* A method is called: the cursor it leaves, the errors it appends, the
\* character it returns and the exception it raises.
Method(fn, cur, errs, value, raised) ==
    /\ Len(errors) + Len(errs) <= MaxErrors
    /\ current' = cur
    /\ errors' = errors \o errs
    /\ ret' = [fn |-> fn, value |-> value, raised |-> raised]
    /\ UNCHANGED <<content, tokens, pc, yielded, exc, call>>

Advance ==
    LET a == advance(content, current)
    IN  Method("advance", a.current, << >>, a.char, "")

Consume == Method("consume", consume(content, current), << >>, "", "")

Peek ==
    \E n \in 0..1 :
        Method("peek", current, << >>, peek(content, current, n), "")

ScanSymbol ==
    \E char0 \in FirstChars :
        LET r == scan_symbol(content, current, char0)
        IN  Method("scan_symbol", r.current, r.errs, "", r.raised)

ScanIdentifier ==
    \E char0 \in FirstChars :
        LET r == scan_identifier(content, current, char0)
        IN  Method("scan_identifier", r.current, r.errs, "", r.raised)

ScanNumber ==
    \E char0 \in FirstChars :
        LET r == scan_number(content, current, char0)
        IN  Method("scan_number", r.current, r.errs, "", r.raised)

ScanString ==
    \E char0 \in FirstChars :
        LET r == scan_string(content, current, char0)
        IN  Method("scan_string", r.current, r.errs, "", r.raised)

ScanComment ==
    LET r == scan_comment(content, current)
    IN  Method("scan_comment", r.current, r.errs, "", r.raised)

MakeErr ==
    \E msg \in MethodMessages :
        Method("makeerr", current, <<makeerr(content, current, msg)>>, "", "")

MethodNext ==
    \/ Advance
    \/ Consume
    \/ Peek
    \/ ScanSymbol
    \/ ScanIdentifier
    \/ ScanNumber
    \/ ScanString
    \/ ScanComment
    \/ MakeErr

MethodSpec == MethodInit /\ [][MethodNext]_vars

\* ------------------------------------------------- direct calls of matchers
Call(fn, start, res) ==
    /\ call = NoCall
    /\ call' = [fn |-> fn, start |-> start, res |-> res]
    /\ UNCHANGED <<content, current, tokens, errors, pc, yielded, exc, ret>>

CallSymbol ==
    \E start \in 0..Len(content) :
        Call("match_symbol", start, match_symbol(content, start))

CallComment ==
    \E start \in 0..Len(content) :
        Call("match_comment", start, match_comment(content, start))

CallString ==
    \E start \in 0..Len(content) :
        Call("match_string", start, match_string(content, start))

CallIdentifier ==
    \E start \in 0..Len(content) :
        Call("match_identifier", start, match_identifier(content, start))

CallNumber ==
    \E start \in 0..Len(content) :
        Call("match_number", start, match_number(content, start))

CallExponent ==
    \E start \in 0..Len(content) :
        Call("match_exponent", start, match_exponent(content, start))

MatchNext ==
    \/ CallSymbol
    \/ CallComment
    \/ CallString
    \/ CallIdentifier
    \/ CallNumber
    \/ CallExponent

MatchSpec == Init /\ [][MatchNext]_vars

\* ------------------------------------------------------------ claims: helpers
Last(seq) == seq[Len(seq)]

MinOf(S) == CHOOSE m \in S : \A x \in S : m <= x

\* The elements of the set of integers S in increasing order
RECURSIVE SortedSeq(_)
SortedSeq(S) == IF S = {} THEN << >> ELSE <<MinOf(S)>> \o SortedSeq(S \ {MinOf(S)})

\* C1: for every input the scan returns normally: every iteration of the
\* next-token loop strictly increases the cursor, the cursor never exceeds
\* len(content), no exception leaves the scan, and the loop ends with
\* cursor = len(content).
C1_ScanTerminatesNormally ==
    /\ [](/\ pc # "raised"
          /\ current <= Len(content)
          /\ (pc = "done" => current = Len(content)))
    /\ [][NextTok => current' > current]_vars

\* C2: in every state the collected tokens are in source order with
\* non-overlapping, non-empty spans inside the text and behind the cursor,
\* and each token appended by an iteration spans exactly the characters by
\* which that iteration advanced the cursor: the token yielded by the
\* iteration starts at the old cursor and ends at the new one, and it is
\* that token which is appended, at the end of the list.
C2_TokensOrdered ==
    /\ [](/\ \A k \in 1..Len(tokens) :
                /\ 0 <= tokens[k].start
                /\ tokens[k].start < tokens[k].end
                /\ tokens[k].end <= Len(content)
                /\ tokens[k].end <= current
          /\ \A k \in 1..(Len(tokens) - 1) :
                tokens[k].end <= tokens[k + 1].start
          /\ (yielded # << >> /\ tokens # << >>) =>
                Last(tokens).end <= yielded[1].start)
    /\ [][(NextTok /\ yielded' # << >>) =>
            /\ Len(yielded') = 1
            /\ yielded'[1].start = current
            /\ yielded'[1].end = current'
            /\ yielded'[1].end - yielded'[1].start = current' - current]_vars
    /\ [][tokens' # tokens =>
            /\ yielded # << >>
            /\ Len(tokens') = Len(tokens) + 1
            /\ SubSeq(tokens', 1, Len(tokens)) = tokens
            /\ Last(tokens') = yielded[1]
            /\ Last(tokens').end = current']_vars

\* Two tokens have been collected with skipped text between them.
C2_Witness ==
    /\ Len(tokens) >= 2
    /\ tokens[1].end < tokens[2].start
    /\ tokens[2].end - tokens[2].start >= 2

\* The offset after the comment that starts at offset i: after the next
\* newline, or the end of the text when no newline follows.
CommentEnd(text, i) ==
    LET newlines == {j \in (i + 2)..(Len(text) - 1) : At(text, j) = "\n"}
    IN  IF newlines = {} THEN Len(text) ELSE MinOf(newlines) + 1

\* C3: whenever the cursor is at "//" the iteration consumes the comment up
\* to and including the next newline (or up to the end of the text), yields
\* nothing (so no token is appended) and records no error; no yielded or
\* collected token has kind COMMENT.
C3_CommentsElided ==
    /\ [](/\ \A k \in 1..Len(tokens) : tokens[k].kind # "COMMENT"
          /\ \A k \in 1..Len(yielded) : yielded[k].kind # "COMMENT")
    /\ [][(NextTok /\ Slice(content, current, current + 2) = <<"/", "/">>) =>
            /\ yielded' = << >>
            /\ errors' = errors
            /\ pc' = "scanning"
            /\ current' = CommentEnd(content, current)]_vars

\* C4: an iteration whose matcher fails appends the error(s), advances the
\* cursor by at least one character (exactly one for an unknown symbol),
\* yields no token and stays in the loop; once an error has been recorded
\* the scan still runs to the end of the text, so what follows the bad
\* region is scanned.
C4_ErrorTolerant ==
    /\ [][(NextTok /\ errors' # errors) =>
            /\ Len(errors') > Len(errors)
            /\ SubSeq(errors', 1, Len(errors)) = errors
            /\ current' >= current + 1
            /\ (At(content, current) # "\"" => current' = current + 1)
            /\ yielded' = << >>
            /\ pc' = "yielded"]_vars
    /\ []((errors # << >> /\ pc \notin {"scanning", "yielded"}) =>
            (pc = "done" /\ current = Len(content)))

\* C5: the lexeme of every collected token is the raw source text
\* content[start:end], so its length is end - start.
C5_LexemeIsRawText ==
    \A k \in 1..Len(tokens) :
        /\ tokens[k].lexeme = Slice(content, tokens[k].start, tokens[k].end)
        /\ Len(tokens[k].lexeme) = tokens[k].end - tokens[k].start

\* The number of consecutive backslashes that end right before offset p
BackslashesBefore(text, p) ==
    CHOOSE k \in 0..p :
        /\ \A j \in 1..k : At(text, p - j) = "\\"
        /\ k < p => At(text, p - k - 1) # "\\"

\* Offset p holds a backslash that starts an escape sequence.
StartsEscape(text, p) ==
    At(text, p) = "\\" /\ BackslashesBefore(text, p) % 2 = 0

\* The offsets after s of the quotes that are not escaped
UnescapedQuotes(text, s) ==
    {q \in (s + 1)..(Len(text) - 1) :
        At(text, q) = "\"" /\ ~StartsEscape(text, q - 1)}

\* The errors of the string that opens at offset s, in order of detection.
StringErrors(text, s) ==
    LET n == Len(text)
        closed == UnescapedQuotes(text, s) # {}
        last == IF closed THEN MinOf(UnescapedQuotes(text, s)) ELSE n - 1
        unknown == {p \in (s + 1)..last :
                       /\ StartsEscape(text, p)
                       /\ p + 1 < n
                       /\ At(text, p + 1) \notin DOMAIN ESCAPE_SEQUENCES}
        eof == ~closed /\ n - 1 > s /\ StartsEscape(text, n - 1)
        sorted == SortedSeq(unknown)
    IN  [k \in 1..Len(sorted) |->
            ScanError(text, sorted[k], ScanErrorMessages[13])]
        \o (IF eof THEN <<ScanError(text, n - 1, ScanErrorMessages[12])>>
            ELSE << >>)
        \o (IF closed THEN << >>
            ELSE <<ScanError(text, IF eof THEN n - 1 ELSE n,
                             ScanErrorMessages[14])>>)

\* C6: match_string at an opening quote returns all the errors of the
\* string in order of detection (an unknown-escape error per bad escape, an
\* EOF error for a trailing backslash, a missing-quote error when the
\* string is not closed); success iff there is none; on any error the
\* literal is empty; span >= 1, and an unterminated string with no trailing
\* backslash spans to the end of the text.
C6_StringErrors ==
    (/\ call.fn = "match_string"
     /\ call.start < Len(content)
     /\ At(content, call.start) = "\"") =>
        LET res == call.res
            expected == StringErrors(content, call.start)
        IN  /\ res.raised = ""
            /\ res.error.items = expected
            /\ res.success <=> (expected = << >>)
            /\ res.success <=> (res.error = NoError)
            /\ ~res.success => (res.error.form = "list"
                                /\ res.token[1].literal = StrLiteral(<< >>))
            /\ res.span >= 1
            /\ (/\ UnescapedQuotes(content, call.start) = {}
                /\ ~StartsEscape(content, Len(content) - 1))
               => call.start + res.span = Len(content)

\* match_string has returned three errors for one string.
C6_Witness ==
    /\ call.fn = "match_string"
    /\ Len(call.res.error.items) = 3
    /\ call.res.error.items[1].msg = ScanErrorMessages[13]
    /\ call.res.error.items[2].msg = ScanErrorMessages[12]
    /\ call.res.error.items[3].msg = ScanErrorMessages[14]

\* C7: match_symbol returns the two-character entry of the symbol table at
\* start when there is one (span 2), else the one-character entry (span 1),
\* else failure with span 0, no token and the 'Unknown symbol.' error.
C7_SymbolMaximalMunch ==
    call.fn = "match_symbol" =>
        LET res == call.res
            two == Slice(content, call.start, call.start + 2)
            one == Slice(content, call.start, call.start + 1)
        IN  IF Len(two) = 2 /\ two \in DOMAIN SYMBOLS
            THEN res = MatchResult(TRUE,
                           <<Token(SYMBOLS[two], two, call.start,
                                   call.start + 2, NoLiteral)>>, 2, NoError)
            ELSE IF one \in DOMAIN SYMBOLS
            THEN res = MatchResult(TRUE,
                           <<Token(SYMBOLS[one], one, call.start,
                                   call.start + 1, NoLiteral)>>, 1, NoError)
            ELSE /\ ~res.success
                 /\ res.span = 0
                 /\ res.token = << >>
                 /\ res.raised = ""
                 /\ Len(res.error.items) = 1
                 /\ res.error.items[1].msg = "Unknown symbol."

\* match_symbol has matched "==" in the middle of a text.
C7_Witness ==
    /\ call.fn = "match_symbol"
    /\ call.start > 0
    /\ call.res.success
    /\ call.res.span = 2
    /\ call.res.token[1].kind = "DEQ"

\* Character c can continue an identifier.
IdentifierChar(c) == c \in Letters \/ c \in Numerics \/ c = "_"

\* C8: match_identifier at a letter or '_' returns the maximal run of
\* alphanumeric characters and '_' as lexeme, span = its length, no
\* literal; the kind is the keyword's kind iff the whole run is a keyword,
\* and IDENTIFIER otherwise.
C8_IdentifierOrKeyword ==
    (/\ call.fn = "match_identifier"
     /\ call.start < Len(content)
     /\ (At(content, call.start) \in Letters \/ At(content, call.start) = "_"))
    =>  LET res == call.res
            tok == res.token[1]
            stop == call.start + res.span
        IN  /\ res.success /\ res.raised = "" /\ res.error = NoError
            /\ Len(res.token) = 1
            /\ res.span >= 1
            /\ stop <= Len(content)
            /\ \A j \in call.start..(stop - 1) : IdentifierChar(At(content, j))
            /\ stop < Len(content) => ~IdentifierChar(At(content, stop))
            /\ tok.lexeme = Slice(content, call.start, stop)
            /\ tok.start = call.start /\ tok.end = stop
            /\ tok.literal = NoLiteral
            /\ tok.kind = IF tok.lexeme \in DOMAIN KEYWORDS
                          THEN KEYWORDS[tok.lexeme] ELSE "IDENTIFIER"
            /\ tok.kind \in {KEYWORDS[k] : k \in DOMAIN KEYWORDS}
               <=> tok.lexeme \in DOMAIN KEYWORDS

\* match_identifier has returned an identifier of which a keyword is a
\* proper prefix, the run containing a '_'.
C8_Witness ==
    /\ call.fn = "match_identifier"
    /\ call.res.success
    /\ call.res.token[1].kind = "IDENTIFIER"
    /\ Len(call.res.token[1].lexeme) >= 3
    /\ SubSeq(call.res.token[1].lexeme, 1, 3) = <<"o", "r", "_">>
    /\ call.start + call.res.span < Len(content)

\* The offset after the longest run of digits with at most one '.' that
\* starts at offset s
NumberRunEnd(text, s) ==
    LET ok(r) == /\ \A j \in s..(r - 1) : At(text, j) \in Digits \cup {"."}
                 /\ Cardinality({j \in s..(r - 1) : At(text, j) = "."}) <= 1
    IN  CHOOSE r \in s..Len(text) : ok(r) /\ (r < Len(text) => ~ok(r + 1))

\* The offset after the run of digits that starts at offset i
DigitRunEnd(text, i) ==
    CHOOSE d \in i..Len(text) :
        /\ \A j \in i..(d - 1) : At(text, j) \in Digits
        /\ d < Len(text) => At(text, d) \notin Digits

\* The length of the complete exponent [eE][+-]?digits at offset r, 0 when
\* there is none
ExponentLength(text, r) ==
    IF r < Len(text) /\ At(text, r) \in {"e", "E"}
    THEN LET j == IF r + 1 < Len(text) /\ At(text, r + 1) \in {"+", "-"}
                  THEN r + 2 ELSE r + 1
             d == IF j <= Len(text) THEN DigitRunEnd(text, j) ELSE j
         IN  IF d > j THEN d - r ELSE 0
    ELSE 0

\* C9: match_number at a digit or '.' succeeds iff the leading run of
\* digits with at most one '.' holds a digit; the lexeme is then that run
\* extended by a complete exponent when one follows, and by nothing (and no
\* error) when what follows is not a complete exponent; with no digit it
\* fails with span 0 and the 'No digit' error.
C9_NumberLongestPrefix ==
    (/\ call.fn = "match_number"
     /\ call.start < Len(content)
     /\ At(content, call.start) \in Digits \cup {"."})
    =>  LET res == call.res
            r == NumberRunEnd(content, call.start)
            hasdigit == \E j \in call.start..(r - 1) : At(content, j) \in Digits
            span == (r - call.start) + ExponentLength(content, r)
        IN  /\ res.raised = ""
            /\ res.success <=> hasdigit
            /\ res.success =>
                 /\ res.span = span
                 /\ res.error = NoError
                 /\ Len(res.token) = 1
                 /\ res.token[1].kind = "NUMBER"
                 /\ res.token[1].lexeme =
                        Slice(content, call.start, call.start + span)
            /\ ~res.success =>
                 /\ res.span = 0
                 /\ res.token = << >>
                 /\ Len(res.error.items) = 1
                 /\ res.error.items[1].msg = ScanErrorMessages[17]

\* C10: an iteration at a '.' not followed by a digit yields a DOT token of
\* span 1 and no error; at a '.' followed by a digit it yields a NUMBER
\* token that starts at the '.'; the yielded token is the one appended.
C10_DotDispatch ==
    /\ [][(NextTok /\ At(content, current) = ".") =>
            /\ errors' = errors
            /\ pc' = "yielded"
            /\ Len(yielded') = 1
            /\ yielded'[1].start = current
            /\ IF /\ current + 1 < Len(content)
                  /\ At(content, current + 1) \in Digits
               THEN /\ yielded'[1].kind = "NUMBER"
                    /\ current' = yielded'[1].end
               ELSE /\ yielded'[1] =
                         Token("DOT", <<".">>, current, current + 1, NoLiteral)
                    /\ current' = current + 1]_vars
    /\ [][ScanAppend => tokens' = tokens \o yielded]_vars

\* C11: every entry of the driver's error list is a ScanError that carries
\* an offset pos with 0 <= pos <= len(content) and a message of the catalog;
\* no entry is a bare message without a position.
C11_ErrorsAreScanErrors ==
    \A k \in 1..Len(errors) :
        /\ errors[k].type = "ScanError"
        /\ 0 <= errors[k].pos
        /\ errors[k].pos <= Len(content)
        /\ errors[k].msg \in {ScanErrorMessages[c] : c \in DOMAIN ScanErrorMessages}

\* The value of a run of decimal digits, read from the left with the
\* value acc of the digits already read
RECURSIVE DecimalValue(_, _)
DecimalValue(digits, acc) ==
    IF digits = << >> THEN acc
    ELSE DecimalValue(Tail(digits), 10 * acc + DigitValue(Head(digits)))

\* The result of a failed match that reports the error msg at offset pos
Failure(text, pos, msg) ==
    MatchResult(FALSE, << >>, 0, OneError(ScanError(text, pos, msg)))

\* C12: match_exponent is total and agrees with the grammar
\* [eE][+-]?digit+: on a match it returns kind EXPONENT, the matched text
\* with the maximal digit run, span = its length and the signed value of
\* the digits; at end of input it fails with 'EOF reached'; at another
\* first character with 'Invalid start character' at start; with no digit
\* after the optional sign (also when the text ends there) with 'No value'
\* at the offset after the e/E and sign.  Every failure has span 0 and no
\* token.
C12_ExponentGrammar ==
    call.fn = "match_exponent" =>
        LET s == call.start
            n == Len(content)
            signed == s + 1 < n /\ At(content, s + 1) \in {"+", "-"}
            j == IF signed THEN s + 2 ELSE s + 1
            d == DigitRunEnd(content, j)
            sign == IF signed /\ At(content, s + 1) = "-" THEN -1 ELSE 1
        IN  IF s >= n
            THEN call.res = Failure(content, s, ScanErrorMessages[40])
            ELSE IF At(content, s) \notin {"e", "E"}
            THEN call.res = Failure(content, s, ScanErrorMessages[30])
            ELSE IF d > j
            THEN call.res =
                   MatchResult(TRUE,
                       <<Token("EXPONENT", Slice(content, s, d), s, d,
                               IntLiteral(sign *
                                   DecimalValue(Slice(content, j, d), 0)))>>,
                       d - s, NoError)
            ELSE call.res = Failure(content, j, ScanErrorMessages[31])

\* The matchers that produce a token on success
TokenProducing ==
    {"match_symbol", "match_identifier", "match_number", "match_exponent",
     "match_string"}

\* C13: the MatchResult returned by any matcher carries a token iff success
\* is true and the matcher is token-producing: a failed match carries none,
\* and a successful comment match carries none.
C13_TokenIffSuccess ==
    (call.fn # "none" /\ call.res.raised = "") =>
        (call.res.token # << >>
            <=> (call.res.success /\ call.fn \in TokenProducing))

\* C13 as amended: a returned MatchResult carries a token iff success is
\* true and the matcher is token-producing, or the matcher is match_string
\* called at an opening quote and the match failed; the token of a failed
\* match_string is a STRING token with an empty literal.  A failed match of
\* every other matcher carries no token, and a comment match carries none.
C13_TokenIffSuccessOrFailedString ==
    (call.fn # "none" /\ call.res.raised = "") =>
        LET res == call.res
            failedstring == /\ call.fn = "match_string"
                            /\ ~res.success
                            /\ At(content, call.start) = "\""
        IN  /\ res.token # << >>
                <=> ((res.success /\ call.fn \in TokenProducing) \/ failedstring)
            /\ failedstring =>
                 /\ res.token[1].kind = "STRING"
                 /\ res.token[1].literal = StrLiteral(<< >>)
                 /\ res.token[1].start = call.start
                 /\ res.token[1].end = call.start + res.span
            /\ call.fn = "match_comment" => res.token = << >>

\* A failed match_string has returned a result that carries a token.
C13_Witness ==
    /\ call.fn = "match_string"
    /\ call.res.raised = ""
    /\ ~call.res.success
    /\ call.res.token # << >>
    /\ call.res.span >= 2

====
